---- MODULE Spec2Model ----
(***************************************************************************)
(* A model of times_reader/__main__.py: the Canonicalizer                  *)
(* (produce_times_tables), the structured Serializer (write_dd_files), the *)
(* Verifier (compare) and the pipeline driver (convert_xl_to_times, main). *)
(*                                                                         *)
(* Text is modelled by TLA+ strings; cells of a table are strings or the   *)
(* missing value NaN.  A table is a record [cols, rows]: cols the sequence *)
(* of column names, rows a sequence of tuples aligned with cols.  A Table  *)
(* Store is a function from table names to tables.                         *)
(***************************************************************************)
EXTENDS Naturals, Sequences, FiniteSets, TLC

VARIABLES
    input,        \* produce_times_tables: the incoming Table Store
    mapping,      \* produce_times_tables: the Mapping Entry of the current iteration
    outcome,      \* produce_times_tables: the branch the current iteration took
    result,       \* produce_times_tables: the store being built
    used_tables,  \* produce_times_tables: source tables recorded as used
    warnings,     \* the WARNING lines printed so far
    processed,    \* history: xl_name, times_name and outcome of the entries gone through
    n,            \* produce_times_tables: mapping entries iterated so far
    tables,       \* write_dd_files: the Table Store to serialize
    config,       \* write_dd_files: config.times_xl_maps and config.dd_table_order
    files,        \* write_dd_files: the .dd files of output_dir, as written so far
    dd_file,      \* write_dd_files: position in tables_in_file.items()
    dd_todo,      \* write_dd_files: tables of the open file still to write
    data,         \* compare: the produced Table Store
    ground_truth, \* compare: the ground-truth Table Store
    gt_todo,      \* compare: ground-truth tables still to compare, largest first
    totals,       \* compare: total_gt_rows, total_correct_rows, total_additional_rows
    side_files,   \* compare: the _additional.csv and _missing.csv files written
    summary,      \* compare: the summary line printed at the end, if any
    args,         \* main: the command line options dd and ground_truth_dir
    raw_tables,   \* convert_xl_to_times: the extracted raw tables
    stage,        \* convert_xl_to_times: stages of transform_list gone through
    stage_input,  \* convert_xl_to_times: the local variable input
    output,       \* convert_xl_to_times: the local variable output
    calls,        \* history: the stages called so far, by position in transform_list
    last_arg,     \* history: the tables passed to the last stage called
    prev_ret,     \* history: what the stage called before the last one returned
    raised_by,    \* history: the stage that raised, 0 if none
    returned,     \* main: the store convert_xl_to_times returned, 0 if none
    ran,          \* main: the serializer and the verifier, once called
    stop_after_read,  \* convert_xl_to_times: the parameter stop_after_read
    raw_tables_list,  \* convert_xl_to_times: raw_tables, as the list of its tables
    raw_tables_txt,   \* the tables dumped to raw_tables.txt, once dumped
    first_input,      \* the list the first stage of transform_list is passed, once called
    pc            \* control position of the modelled function

canonVars == <<input, mapping, outcome, result, used_tables, processed, n>>
ddVars == <<tables, config, files, dd_file, dd_todo>>
cmpVars == <<data, ground_truth, gt_todo, totals, side_files, summary>>

runVars == <<args, raw_tables, stage, stage_input, output, calls, last_arg, prev_ret,
             raised_by, returned, ran>>

readVars == <<stop_after_read, raw_tables_list, raw_tables_txt, first_input>>

vars == <<canonVars, ddVars, cmpVars, runVars, readVars, warnings, pc>>

-----------------------------------------------------------------------------
(* Bounds of the model *)

MaxRows == 2
MaxMaps == 2
MaxLines == 2
MaxCmpRows == 2
MaxStore == 2
MaxTables == 2

-----------------------------------------------------------------------------
(* Text *)

\* A missing cell (float NaN / None in the DataFrame): a value that is no string
\* of the model's universe.
NaN == "<NaN>"

UpperLetters == "ABCDEFGHIJKLMNOPQRSTUVWXYZ"
LowerLetters == "abcdefghijklmnopqrstuvwxyz"

CharAt(s, i) == SubSeq(s, i, i)

\* str.lower() on one character
LowerChar(c) ==
    IF \E i \in 1..Len(UpperLetters) : CharAt(UpperLetters, i) = c
    THEN CharAt(LowerLetters, CHOOSE i \in 1..Len(UpperLetters) : CharAt(UpperLetters, i) = c)
    ELSE c

RECURSIVE lower(_)
\* str.lower()
lower(s) ==
    IF Len(s) = 0 THEN ""
    ELSE LowerChar(CharAt(s, 1)) \o lower(SubSeq(s, 2, Len(s)))

Range(s) == {s[i] : i \in 1..Len(s)}

-----------------------------------------------------------------------------
(* DataFrame operations used by the program *)

\* c in df.columns
HasCol(df, c) == c \in Range(df.cols)

ColIndex(cols, c) == CHOOSE i \in 1..Len(cols) : cols[i] = c

\* df[c]: the cells of column c, one per row
Column(df, c) == [k \in 1..Len(df.rows) |-> df.rows[k][ColIndex(df.cols, c)]]

\* df[c] = vals: overwrite column c in place, or append it as the last column
SetColumn(df, c, vals) ==
    IF HasCol(df, c)
    THEN [df EXCEPT !.rows =
            [k \in 1..Len(df.rows) |->
                [df.rows[k] EXCEPT ![ColIndex(df.cols, c)] = vals[k]]]]
    ELSE [cols |-> Append(df.cols, c),
          rows |-> [k \in 1..Len(df.rows) |-> Append(df.rows[k], vals[k])]]

\* df.loc[:, names]: the columns names, in that order (every name a column of df)
SelectCols(df, names) ==
    [cols |-> names,
     rows |-> [k \in 1..Len(df.rows) |->
                 [j \in 1..Len(names) |-> df.rows[k][ColIndex(df.cols, names[j])]]]]

RECURSIVE DropDuplicateRows(_)
\* df.drop_duplicates(): the first occurrence of every row is kept, in order
\* (missing cells compare equal to each other)
DropDuplicateRows(rows) ==
    IF rows = <<>> THEN <<>>
    ELSE LET init == DropDuplicateRows(SubSeq(rows, 1, Len(rows) - 1))
             last == rows[Len(rows)]
         IN  IF last \in Range(init) THEN init ELSE Append(init, last)

-----------------------------------------------------------------------------
(* Table Stores *)

EmptyStore == [t \in {} |-> [cols |-> <<>>, rows |-> <<>>]]

\* store[name] = df
Put(store, name, df) ==
    [t \in DOMAIN store \cup {name} |-> IF t = name THEN df ELSE store[t]]

RECURSIVE SeqsUpTo(_, _)
\* the sequences over S of length at most k
SeqsUpTo(S, k) ==
    IF k = 0 THEN {<<>>}
    ELSE LET shorter == SeqsUpTo(S, k - 1)
         IN  shorter \cup {Append(q, x) : q \in {r \in shorter : Len(r) = k - 1}, x \in S}

\* The variables of write_dd_files while another function is modelled
DDIdle ==
    /\ tables = EmptyStore
    /\ config = [times_xl_maps |-> <<>>, dd_table_order |-> <<>>]
    /\ files = [f \in {} |-> <<>>]
    /\ dd_file = 0
    /\ dd_todo = <<>>

NoSummary == [correct |-> 0, gt |-> 0, additional |-> 0, printed |-> FALSE]

\* The variables of compare while another function is modelled
CmpIdle ==
    /\ data = EmptyStore
    /\ ground_truth = EmptyStore
    /\ gt_todo = <<>>
    /\ totals = [gt_rows |-> 0, correct_rows |-> 0, additional_rows |-> 0]
    /\ side_files = {}
    /\ summary = NoSummary

\* output = {} (and the value of "no store")
EmptyDict == 0

\* The variables of convert_xl_to_times and main while another function is
\* modelled
RunIdle ==
    /\ args = [dd |-> FALSE, ground_truth_dir |-> FALSE]
    /\ raw_tables = EmptyDict
    /\ stage = 0
    /\ stage_input = EmptyDict
    /\ output = EmptyDict
    /\ calls = <<>>
    /\ last_arg = EmptyDict
    /\ prev_ret = EmptyDict
    /\ raised_by = 0
    /\ returned = EmptyDict
    /\ ran = {}

\* nothing dumped to raw_tables.txt, no stage called
NotYet == [done |-> FALSE, tables |-> <<>>]

\* The variables of the reading part of convert_xl_to_times while another
\* function is modelled
ReadIdle ==
    /\ stop_after_read = FALSE
    /\ raw_tables_list = <<>>
    /\ raw_tables_txt = NotYet
    /\ first_input = NotYet

-----------------------------------------------------------------------------
(* produce_times_tables: the inputs of the model *)

\* Rows of the source table techs over the columns region, techname, value: the
\* rows of the example (EU,T1,5), (US,T2,3), (EU,T3,None), a region in another
\* case, an empty and a missing value, and a missing region.
TechRows ==
    { <<"EU", "T1", "5">>, <<"US", "T2", "3">>, <<"EU", "T3", "None">>,
      <<"eu", "T1", "5">>, <<"EU", "T2", "">>, <<"EU", "T2", NaN>>,
      <<NaN, "T1", "5">> }

\* The source table techs, with and without its techname column.
TechTables ==
    { [cols |-> <<"region", "techname", "value">>, rows |-> rs] :
        rs \in SeqsUpTo(TechRows, MaxRows) }
    \cup
    { [cols |-> <<"region", "value">>,
       rows |-> [k \in 1..Len(rs) |-> <<rs[k][1], rs[k][3]>>]] :
        rs \in SeqsUpTo(TechRows, MaxRows) }

AuxTable == [cols |-> <<"region">>, rows |-> << <<"EU">>, <<"US">> >>]

InputStores ==
    { [t \in {"techs", "aux"} |-> IF t = "techs" THEN tt ELSE AuxTable] :
        tt \in TechTables }

\* A Mapping Entry (datatypes.TimesXlMap).  col_map and filter_rows are dicts:
\* sequences of <<key, value>> pairs in the order the dict iterates them.
TimesXlMap(times_name, times_cols, xl_name, xl_cols, col_map, filter_rows) ==
    [times_name |-> times_name, times_cols |-> times_cols, xl_name |-> xl_name,
     xl_cols |-> xl_cols, col_map |-> col_map, filter_rows |-> filter_rows]

RegionValueMap == << <<"REGION", "region">>, <<"VALUE", "value">> >>

\* The Mapping Entries an iteration draws from.
TimesXlMaps ==
    { \* the example: filter region = EU (written in lower case)
      TimesXlMap("T1", <<"REGION", "TECH", "VALUE">>, "techs",
                 <<"region", "techname", "value">>,
                 << <<"REGION", "region">>, <<"TECH", "techname">>, <<"VALUE", "value">> >>,
                 << <<"region", "eu">> >>),
      \* same times_name, other columns, no filter
      TimesXlMap("T1", <<"VALUE", "REGION">>, "techs", <<"region", "value">>,
                 RegionValueMap, <<>>),
      \* one source column backing two output columns; no VALUE column
      TimesXlMap("T2", <<"ALL_REG", "REG">>, "techs", <<"region">>,
                 << <<"ALL_REG", "region">>, <<"REG", "region">> >>, <<>>),
      \* a filter column the source table does not have, then one it has
      TimesXlMap("T2", <<"REGION", "VALUE">>, "techs", <<"region", "value">>,
                 RegionValueMap, << <<"year", "2020">>, <<"region", "EU">> >>),
      \* the technology group column
      TimesXlMap("T2", <<"TECH_GRP", "VALUE">>, "techs", <<"techgroup", "value">>,
                 << <<"TECH_GRP", "techgroup">>, <<"VALUE", "value">> >>,
                 << <<"region", "US">> >>),
      \* a source table that is not in the store
      TimesXlMap("T1", <<"REGION", "VALUE">>, "nosuch", <<"region", "value">>,
                 RegionValueMap, <<>>),
      \* a col_map source column that is neither in xl_cols nor in the table
      TimesXlMap("T1", <<"REGION", "VALUE">>, "techs", <<"region">>,
                 << <<"REGION", "region">>, <<"VALUE", "cost">> >>, <<>>),
      \* a times_cols column that col_map does not produce
      TimesXlMap("T1", <<"REGION", "YEAR", "VALUE">>, "techs", <<"region", "value">>,
                 RegionValueMap, <<>>),
      \* no times_cols at all
      TimesXlMap("T2", <<>>, "techs", <<"region">>, <<>>, <<>>),
      \* the second source table
      TimesXlMap("T2", <<"REG">>, "aux", <<"region">>, << <<"REG", "region">> >>,
                 << <<"region", "Eu">> >>) }

NoMapping == TimesXlMap("", <<>>, "", <<>>, <<>>, <<>>)

-----------------------------------------------------------------------------
(* produce_times_tables: one iteration of the loop over config.times_xl_maps *)

\* filter_match without the two lower(): a case-sensitive filter
filter_match_case_sensitive(cell, filter_val) ==
    cell # NaN /\ cell \in {filter_val}

\* one row of  df[filter_col].str.lower().isin(set(x.lower() for x in {filter_val}))
filter_match(cell, filter_val) ==
    cell # NaN /\ lower(cell) \in {lower(filter_val)}

RECURSIVE filter_rows_loop(_, _, _)
\* for filter_col, filter_val in mapping.filter_rows.items(): the filtered df,
\* the warnings printed, and whether df[filter_col] raised KeyError
filter_rows_loop(df, filters, m) ==
    IF filters = <<>>
    THEN [df |-> df, warned |-> <<>>, raised |-> FALSE]
    ELSE LET filter_col == filters[1][1]
             filter_val == filters[1][2]
         IN  IF ~HasCol(df, filter_col)
             THEN [df |-> df,
                   warned |-> << [kind |-> "no_filter_col", times_name |-> m.times_name,
                                  xl_name |-> m.xl_name, col |-> filter_col] >>,
                   raised |-> TRUE]
             ELSE LET i == ColIndex(df.cols, filter_col)
                      kept == SelectSeq(df.rows, LAMBDA r : filter_match(r[i], filter_val))
                  IN  filter_rows_loop([df EXCEPT !.rows = kept], Tail(filters), m)

RECURSIVE col_map_loop(_, _)
\* for times_col, xl_col in mapping.col_map.items(): df[times_col] = df[xl_col]
col_map_loop(df, col_map) ==
    IF col_map = <<>>
    THEN [df |-> df, raised |-> FALSE]
    ELSE LET times_col == col_map[1][1]
             xl_col == col_map[1][2]
         IN  IF ~HasCol(df, xl_col)
             THEN [df |-> df, raised |-> TRUE]
             ELSE col_map_loop(SetColumn(df, times_col, Column(df, xl_col)), Tail(col_map))

\* cols_to_drop = [x for x in df.columns if not x in mapping.times_cols]; df.drop(...)
drop_cols(df, times_cols) ==
    SelectCols(df, SelectSeq(df.cols, LAMBDA x : x \in Range(times_cols)))

\* one row of the mask i: the last times_cols cell is not missing and no cell
\* of the row is "None" or ""
row_valid(df, times_cols, row) ==
    /\ row[ColIndex(df.cols, times_cols[Len(times_cols)])] # NaN
    /\ \A j \in 1..Len(row) : row[j] # "None"
    /\ \A j \in 1..Len(row) : row[j] # ""

\* is_empty without the test: every table is stored
is_empty_never(df) == FALSE

\* if len(df) == 0: continue
is_empty(df) == Len(df.rows) = 0

NoTable == [cols |-> <<>>, rows |-> <<>>]

Done(kind, warned, df) == [outcome |-> kind, warned |-> warned, df |-> df]

\* The else branch of the xl_cols check: col_map, drop, deduplicate, row validity,
\* reorder, drop when empty.
project(df0, m) ==
    LET mapped == col_map_loop(df0, m.col_map)
    IN  IF mapped.raised THEN Done("KeyError", <<>>, NoTable)
        ELSE LET dropped == drop_cols(mapped.df, m.times_cols)
                 df == [dropped EXCEPT !.rows = DropDuplicateRows(dropped.rows)]
             IN  IF m.times_cols = <<>> THEN Done("IndexError", <<>>, NoTable)
                 ELSE IF \E c \in Range(m.times_cols) : ~HasCol(df, c)
                      THEN Done("KeyError", <<>>, NoTable)
                 ELSE LET valid == SelectSeq(df.rows,
                                             LAMBDA r : row_valid(df, m.times_cols, r))
                          out == SelectCols([df EXCEPT !.rows = valid], m.times_cols)
                      IN  IF is_empty(out) THEN Done("empty", <<>>, NoTable)
                          ELSE Done("stored", <<>>, out)

\* The body of the loop for the Mapping Entry m: the branch taken (outcome), the
\* warnings printed and, when outcome = "stored", the table put in result.
process_mapping(store, m) ==
    IF m.xl_name \notin DOMAIN store
    THEN Done("no_input_table",
              << [kind |-> "no_input_table", times_name |-> m.times_name,
                  xl_name |-> m.xl_name] >>, NoTable)
    ELSE LET filtered == filter_rows_loop(store[m.xl_name], m.filter_rows, m)
         IN  IF filtered.raised THEN Done("KeyError", filtered.warned, NoTable)
             ELSE IF "techgroup" \in Range(m.xl_cols) /\ ~HasCol(filtered.df, "techname")
                  THEN Done("KeyError", filtered.warned, NoTable)
             ELSE LET df == IF "techgroup" \in Range(m.xl_cols)
                            THEN SetColumn(filtered.df, "techgroup",
                                           Column(filtered.df, "techname"))
                            ELSE filtered.df
                      missing == Range(m.xl_cols) \ Range(df.cols)
                  IN  IF missing # {}
                      THEN Done("missing_cols",
                                filtered.warned \o
                                << [kind |-> "missing_cols", times_name |-> m.times_name,
                                    xl_name |-> m.xl_name, missing |-> missing] >>,
                                NoTable)
                      ELSE LET p == project(df, m)
                           IN  Done(p.outcome, filtered.warned, p.df)

Raised(kind) == kind \in {"KeyError", "IndexError"}

\* One iteration of  for mapping in config.times_xl_maps
produce_times_tables_iter ==
    /\ pc = "loop"
    /\ n < MaxMaps
    /\ \E m \in TimesXlMaps :
          LET r == process_mapping(input, m)
          IN  /\ mapping' = m
              /\ outcome' = r.outcome
              /\ warnings' = warnings \o r.warned
              /\ used_tables' = IF m.xl_name \in DOMAIN input
                                THEN used_tables \cup {m.xl_name}
                                ELSE used_tables
              /\ result' = IF r.outcome = "stored"
                           THEN Put(result, m.times_name, r.df)
                           ELSE result
              /\ processed' = Append(processed, [xl_name |-> m.xl_name,
                                                  times_name |-> m.times_name,
                                                  outcome |-> r.outcome])
              /\ pc' = IF Raised(r.outcome) THEN "raised" ELSE "loop"
    /\ n' = n + 1
    /\ UNCHANGED <<input, ddVars, cmpVars, runVars, readVars>>

\* every input table taken as unused, whatever was marked used
unused_tables_all(inp, used) == DOMAIN inp

\* unused_tables = set(input.keys()) - used_tables
unused_tables(inp, used) == DOMAIN inp \ used

\* After the loop: the unused tables warning, and return result
produce_times_tables_return ==
    /\ pc = "loop"
    /\ LET unused == unused_tables(input, used_tables)
       IN  warnings' = IF Cardinality(unused) > 0
                       THEN Append(warnings, [kind |-> "unused", tables |-> unused])
                       ELSE warnings
    /\ pc' = "done"
    /\ UNCHANGED <<input, mapping, outcome, result, used_tables, processed, n, ddVars, cmpVars, runVars, readVars>>

Init ==
    /\ input \in InputStores
    /\ mapping = NoMapping
    /\ outcome = "none"
    /\ result = EmptyStore
    /\ used_tables = {}
    /\ processed = <<>>
    /\ warnings = <<>>
    /\ n = 0
    /\ pc = "loop"
    /\ DDIdle
    /\ CmpIdle
    /\ RunIdle
    /\ ReadIdle

Next ==
    \/ produce_times_tables_iter
    \/ produce_times_tables_return

Spec == Init /\ [][Next]_vars

-----------------------------------------------------------------------------
(* What the specification says of one Mapping Entry, stated on the source     *)
(* table and not on the steps of the code                                     *)

Source(m) == input[m.xl_name]

\* the filter_rows constraints whose column the source table has
PresentFilters(m) == {f \in Range(m.filter_rows) : HasCol(Source(m), f[1])}

AbsentFilters(m) == Range(m.filter_rows) \ PresentFilters(m)

\* the source rows that match every (present) filter_rows constraint,
\* case-insensitively
MatchingRows(m) ==
    { r \in Range(Source(m).rows) :
        \A f \in PresentFilters(m) :
            LET cell == r[ColIndex(Source(m).cols, f[1])]
            IN  cell # NaN /\ lower(cell) = lower(f[2]) }

\* the source column behind an output column
XlColOf(m, times_col) == (CHOOSE p \in Range(m.col_map) : p[1] = times_col)[2]

\* a source cell; the technology group is read from the technology name
SourceCell(m, r, xl_col) ==
    r[ColIndex(Source(m).cols, IF xl_col = "techgroup" THEN "techname" ELSE xl_col)]

\* the projection of a source row onto times_cols through col_map
Projection(m, r) ==
    [j \in 1..Len(m.times_cols) |-> SourceCell(m, r, XlColOf(m, m.times_cols[j]))]

\* the row validity rule
ValidRow(row) ==
    /\ row[Len(row)] # NaN
    /\ \A j \in 1..Len(row) : row[j] \notin {"None", ""}

ExpectedRows(m) == {row \in {Projection(m, r) : r \in MatchingRows(m)} : ValidRow(row)}

\* every xl_cols column is in the (filtered) source table, the technology group
\* being there when the technology name is
XlColsPresent(m) ==
    \A c \in Range(m.xl_cols) :
        \/ c # "techgroup" /\ HasCol(Source(m), c)
        \/ c = "techgroup" /\ HasCol(Source(m), "techname")

\* col_map produces exactly the columns of times_cols, from columns of xl_cols
WellFormed(m) ==
    /\ m.times_cols # <<>>
    /\ Range(m.times_cols) = {p[1] : p \in Range(m.col_map)}
    /\ {p[2] : p \in Range(m.col_map)} \subseteq Range(m.xl_cols)

-----------------------------------------------------------------------------
(* Claims about produce_times_tables *)

\* C1 (the claim as stated, on entries whose col_map is well formed): a mapping
\* entry whose xl_name is in the input store, whose xl_cols are all in the source
\* table and which yields at least one row is processed without raising, and the
\* table stored under its times_name has exactly the columns times_cols, in order.
C1_ColumnsOrRaise ==
    (/\ n > 0
     /\ mapping.xl_name \in DOMAIN input
     /\ WellFormed(mapping)
     /\ XlColsPresent(mapping)
     /\ ExpectedRows(mapping) # {})
    => (/\ outcome = "stored"
        /\ pc # "raised"
        /\ result[mapping.times_name].cols = mapping.times_cols)

\* C2: the rows of the table an entry stores are exactly the distinct projections
\* onto times_cols of the source rows that match every filter_rows constraint
\* case-insensitively and whose projection has a value in its last column and no
\* cell "None" or ""; on the rows (EU,T1,5), (US,T2,3), (EU,T3,None) with the filter
\* region = EU that is the one row (EU,T1,5).
C2_Rows ==
    /\ outcome = "stored" =>
          LET rows == result[mapping.times_name].rows
          IN  /\ Range(rows) = ExpectedRows(mapping)
              /\ Cardinality(Range(rows)) = Len(rows)
    /\ LET store == [t \in {"techs"} |->
                        [cols |-> <<"region", "techname", "value">>,
                         rows |-> << <<"EU", "T1", "5">>, <<"US", "T2", "3">>,
                                     <<"EU", "T3", "None">> >>]]
           example == TimesXlMap("T1", <<"REGION", "TECH", "VALUE">>, "techs",
                          <<"region", "techname", "value">>,
                          << <<"REGION", "region">>, <<"TECH", "techname">>,
                             <<"VALUE", "value">> >>,
                          << <<"region", "EU">> >>)
       IN  process_mapping(store, example).df.rows = << <<"EU", "T1", "5">> >>

\* C2's case: a stored table for an entry with a filter, whose source table has
\* a row the filter rejects only by case-sensitive comparison and a row the
\* validity rule rejects.
C2_Witness ==
    /\ outcome = "stored"
    /\ mapping.filter_rows = << <<"region", "eu">> >>
    /\ <<"EU", "T1", "5">> \in Range(input["techs"].rows)
    /\ <<"EU", "T3", "None">> \in Range(input["techs"].rows)
    /\ result["T1"].rows = << <<"EU", "T1", "5">> >>

\* C3 (the claim as stated): an entry with a filter_rows column that the source
\* table does not have gets a warning and is processed further: nothing is raised.
C3_AbsentFilterLenient ==
    (/\ n > 0
     /\ mapping.xl_name \in DOMAIN input
     /\ AbsentFilters(mapping) # {})
    => (/\ \E k \in 1..Len(warnings) : warnings[k].kind = "no_filter_col"
        /\ ~Raised(outcome)
        /\ pc # "raised")

\* C4 (the claim as stated): an entry whose xl_name is not in the input store, or
\* whose source table lacks a column of xl_cols (the technology group counting as
\* lacking when it cannot be taken from the technology name), stores no table,
\* gets a warning and raises nothing, and the loop goes on.
C4_FailingEntrySkipped ==
    (/\ n > 0
     /\ \/ mapping.xl_name \notin DOMAIN input
        \/ /\ mapping.xl_name \in DOMAIN input
           /\ AbsentFilters(mapping) = {}
           /\ ~XlColsPresent(mapping))
    => (/\ outcome \in {"no_input_table", "missing_cols"}
        /\ warnings # <<>>
        /\ pc # "raised")

\* C5: every table of the store produce_times_tables builds has at least one row.
C5_NoEmptyTable ==
    \A t \in DOMAIN result : Len(result[t].rows) > 0

\* C5's case: an entry left with no row, under a times_name another entry has
\* already stored a table for.
C5_Witness ==
    /\ outcome = "empty"
    /\ mapping.times_name \in DOMAIN result
    /\ Source(mapping).rows # <<>>

-----------------------------------------------------------------------------
(* write_dd_files: text *)

\* str(x) and f"{x}" of a cell
py_str(x) == IF x = NaN THEN "nan" ELSE x

RECURSIVE join(_, _)
\* sep.join(parts)
join(sep, parts) ==
    IF parts = <<>> THEN ""
    ELSE IF Len(parts) = 1 THEN parts[1]
    ELSE parts[1] \o sep \o join(sep, Tail(parts))

\* The characters of the written lines, in code point order.
CodePoints == "\n './" \o "0123456789" \o UpperLetters \o "_" \o LowerLetters

Ord(c) == CHOOSE i \in 1..Len(CodePoints) : CharAt(CodePoints, i) = c

RECURSIVE str_lt(_, _)
\* a < b on Python strings: lexicographic by code point
str_lt(a, b) ==
    IF Len(b) = 0 THEN FALSE
    ELSE IF Len(a) = 0 THEN TRUE
    ELSE IF CharAt(a, 1) # CharAt(b, 1) THEN Ord(CharAt(a, 1)) < Ord(CharAt(b, 1))
    ELSE str_lt(SubSeq(a, 2, Len(a)), SubSeq(b, 2, Len(b)))

RECURSIVE insert_sorted(_, _)
\* x put into the ascending list, behind the elements not greater than it
insert_sorted(lines, x) ==
    IF lines = <<>> THEN <<x>>
    ELSE IF str_lt(x, lines[1]) THEN <<x>> \o lines
    ELSE <<lines[1]>> \o insert_sorted(Tail(lines), x)

RECURSIVE sort_lines(_)
sort_lines(lines) ==
    IF lines = <<>> THEN <<>>
    ELSE insert_sorted(sort_lines(SubSeq(lines, 1, Len(lines) - 1)), lines[Len(lines)])

\* sorted without the sort: the lines in the order of the rows
sorted_unsorted(lines) == lines

\* sorted(lines)
sorted(lines) == sort_lines(lines)

\* the cells of row whose column is not skip, in column order
cells_but(df, row, skip) ==
    LET keep == SelectSeq([j \in 1..Len(df.cols) |-> j], LAMBDA j : df.cols[j] # skip)
    IN  [k \in 1..Len(keep) |-> py_str(row[keep[k]])]

\* convert_set with the columns joined by a bare "." inside one pair of quotes
convert_set_one_field(df) ==
    [k \in 1..Len(df.rows) |->
        "'" \o join(".", cells_but(df, df.rows[k], "TEXT")) \o "'"
            \o (IF HasCol(df, "TEXT")
                THEN " '" \o py_str(df.rows[k][ColIndex(df.cols, "TEXT")]) \o "'"
                ELSE "")
            \o "\n"]

\* convert_set(df): one line per row
convert_set(df) ==
    [k \in 1..Len(df.rows) |->
        LET row == df.rows[k]
            row_str == join("'.'", cells_but(df, row, "TEXT"))
            desc == IF HasCol(df, "TEXT")
                    THEN " '" \o py_str(row[ColIndex(df.cols, "TEXT")]) \o "'"
                    ELSE ""
        IN  "'" \o row_str \o "'" \o desc \o "\n"]

\* convert_parameter(tablename, df), for a df with a VALUE column
convert_parameter(df) ==
    [k \in 1..Len(df.rows) |->
        LET row == df.rows[k]
            val == py_str(row[ColIndex(df.cols, "VALUE")])
            row_str == join("'.'", cells_but(df, row, "VALUE"))
        IN  IF row_str # "" THEN "'" \o row_str \o "' " \o val \o "\n"
            ELSE val \o "\n"]

\* sets = {m.times_name for m in config.times_xl_maps if "VALUE" not in m.col_map}
sets(cfg) ==
    { m.times_name : m \in { e \in Range(cfg.times_xl_maps) :
                               "VALUE" \notin {p[1] : p \in Range(e.col_map)} } }

\* tables_in_file with ALL_TS left in the list of output.dd
tables_in_file_all(cfg) ==
    << [fname |-> "ts.dd", tablenames |-> <<"ALL_TS">>],
       [fname |-> "output.dd", tablenames |-> cfg.dd_table_order] >>

\* tables_in_file.items(): ALL_TS -> ts.dd, rest -> output.dd
tables_in_file(cfg) ==
    << [fname |-> "ts.dd", tablenames |-> <<"ALL_TS">>],
       [fname |-> "output.dd",
        tablenames |-> SelectSeq(cfg.dd_table_order, LAMBDA t : t # "ALL_TS")] >>

SetHeader(tablename) == "SET " \o tablename \o "\n/\n"

ParameterHeader(tablename) == "PARAMETER\n" \o tablename \o " ' '/\n"

Terminator == "\n/;\n"

\* What one iteration of the inner loop writes for a table: the header, the
\* lines and the terminator (none when convert_parameter raised KeyError).
Block(tablename, header, lines, terminator) ==
    [table |-> tablename, header |-> header, lines |-> lines, terminator |-> terminator]

\* the text of a written block
BlockText(b) == b.header \o join("", b.lines) \o b.terminator

-----------------------------------------------------------------------------
(* write_dd_files: the inputs of the model *)

NonEmptySeqs(S, k) == SeqsUpTo(S, k) \ {<<>>}

\* Tables to serialize: a set with a description, a parameter with a key
\* column, a parameter with no key column, and a table with neither TEXT nor
\* VALUE.
DDTables ==
    { [cols |-> <<"A", "B", "TEXT">>, rows |-> rs] :
        rs \in NonEmptySeqs({<<"A", "B", "desc">>, <<"A", "AB", "d">>}, MaxLines) }
    \cup
    { [cols |-> <<"K", "VALUE">>, rows |-> rs] :
        rs \in NonEmptySeqs({<<"X", "10">>, <<NaN, "5">>}, MaxLines) }
    \cup
    { [cols |-> <<"VALUE">>, rows |-> rs] :
        rs \in NonEmptySeqs({<<"10">>, <<"5">>}, MaxLines) }
    \cup
    { [cols |-> <<"K">>, rows |-> rs] :
        rs \in NonEmptySeqs({<<"X">>, <<"AB">>}, MaxLines) }

TsTable == [cols |-> <<"TS">>, rows |-> << <<"ANNUAL">> >>]

T2Table == [cols |-> <<"K", "VALUE">>, rows |-> << <<"X", "10">> >>]

\* the stores with T1 any of DDTables, with and without ALL_TS and T2
DDStores ==
    { [t \in names |-> CASE t = "ALL_TS" -> TsTable
                         [] t = "T2" -> T2Table
                         [] OTHER -> t1] :
        names \in {ns \in SUBSET {"ALL_TS", "T1", "T2"} : "T1" \in ns}, t1 \in DDTables }
    \cup
    { [t \in names |-> IF t = "ALL_TS" THEN TsTable ELSE T2Table] :
        names \in SUBSET {"ALL_TS", "T2"} }

\* a Mapping Entry, of which write_dd_files reads times_name and col_map
DDMap(times_name, times_cols) ==
    TimesXlMap(times_name, times_cols, "src", times_cols,
               [j \in 1..Len(times_cols) |-> <<times_cols[j], times_cols[j]>>], <<>>)

DDConfigs ==
    { [times_xl_maps |-> maps, dd_table_order |-> order] :
        maps \in { << DDMap("ALL_TS", <<"TS">>), DDMap("T1", <<"A", "B", "TEXT">>),
                      DDMap("T2", <<"K", "VALUE">>) >>,
                   << DDMap("ALL_TS", <<"TS">>), DDMap("T1", <<"K", "VALUE">>),
                      DDMap("T2", <<"K", "VALUE">>) >>,
                   << DDMap("T1", <<"K">>), DDMap("T1", <<"K", "VALUE">>) >> },
        order \in { <<"ALL_TS", "T1", "T2">>, <<"T2", "T1">>, <<"T1">>,
                    <<"T2", "T1", "T2">> } }

-----------------------------------------------------------------------------
(* write_dd_files *)

CanonIdle ==
    /\ input = EmptyStore
    /\ mapping = NoMapping
    /\ outcome = "none"
    /\ result = EmptyStore
    /\ used_tables = {}
    /\ processed = <<>>
    /\ n = 0

\* with open(os.path.join(output_dir, fname), "w") as fout: the next file of
\* tables_in_file is created (or emptied)
dd_open_file ==
    /\ pc = "dd_open"
    /\ dd_file < Len(tables_in_file(config))
    /\ dd_file' = dd_file + 1
    /\ LET entry == tables_in_file(config)[dd_file + 1]
       IN  /\ files' = [f \in DOMAIN files \cup {entry.fname} |->
                           IF f = entry.fname THEN <<>> ELSE files[f]]
           /\ dd_todo' = SelectSeq(entry.tablenames, LAMBDA t : t \in DOMAIN tables)
    /\ pc' = "dd_table"
    /\ UNCHANGED <<canonVars, cmpVars, runVars, readVars, tables, config, warnings>>

\* One iteration of  for tablename in [t for t in tablenames if t in tables]
dd_write_table ==
    /\ pc = "dd_table"
    /\ dd_todo # <<>>
    /\ LET tablename == Head(dd_todo)
           fname == tables_in_file(config)[dd_file].fname
           df == tables[tablename]
           block ==
               IF tablename \in sets(config)
               THEN Block(tablename, SetHeader(tablename), sorted(convert_set(df)),
                          Terminator)
               ELSE IF ~HasCol(df, "VALUE")
                    THEN Block(tablename, ParameterHeader(tablename), <<>>, "")
                    ELSE Block(tablename, ParameterHeader(tablename),
                               sorted(convert_parameter(df)), Terminator)
       IN  /\ files' = [files EXCEPT ![fname] = Append(@, block)]
           /\ pc' = IF block.terminator = "" THEN "dd_raised" ELSE "dd_table"
    /\ dd_todo' = Tail(dd_todo)
    /\ UNCHANGED <<canonVars, cmpVars, runVars, readVars, tables, config, dd_file, warnings>>

\* The inner loop is over: the file is closed, and write_dd_files goes to the
\* next file or returns
dd_close_file ==
    /\ pc = "dd_table"
    /\ dd_todo = <<>>
    /\ pc' = IF dd_file < Len(tables_in_file(config)) THEN "dd_open" ELSE "dd_done"
    /\ UNCHANGED <<canonVars, cmpVars, runVars, readVars, ddVars, warnings>>

InitDD ==
    /\ CanonIdle
    /\ CmpIdle
    /\ RunIdle
    /\ ReadIdle
    /\ tables \in DDStores
    /\ config \in DDConfigs
    /\ files = [f \in {} |-> <<>>]
    /\ dd_file = 0
    /\ dd_todo = <<>>
    /\ warnings = <<>>
    /\ pc = "dd_open"

NextDD ==
    \/ dd_open_file
    \/ dd_write_table
    \/ dd_close_file

SpecDD == InitDD /\ [][NextDD]_vars

-----------------------------------------------------------------------------
(* Claims about write_dd_files *)

\* the blocks written so far whose table body is complete
WrittenBlocks ==
    { b \in UNION {Range(files[f]) : f \in DOMAIN files} : b.terminator # "" }

\* the tables of the blocks of a file, in the order written
BlockTables(f) == [k \in 1..Len(files[f]) |-> files[f][k].table]

\* the lines convert_set or convert_parameter gives for the table of a block
ConvertedLines(b, df) ==
    IF b.table \in sets(config) THEN convert_set(df) ELSE convert_parameter(df)

\* C7 (the claim as stated): the columns other than TEXT (set) or VALUE
\* (parameter) are joined with "." and single-quoted as one field, followed by
\* the quoted description or by the value: 'A.B' 'desc', 'X' 10, and 10 alone
\* for a parameter row with no key column.  Stated of the set tables that have
\* a TEXT column and of the parameter tables.
C7_OneQuotedField ==
    \A b \in {w \in WrittenBlocks :
                 HasCol(tables[w.table], IF w.table \in sets(config) THEN "TEXT" ELSE "VALUE")} :
        LET df == tables[b.table]
        IN  Range(b.lines) =
                { IF b.table \in sets(config)
                  THEN "'" \o join(".", cells_but(df, r, "TEXT")) \o "'"
                           \o (IF HasCol(df, "TEXT")
                               THEN " '" \o py_str(r[ColIndex(df.cols, "TEXT")]) \o "'"
                               ELSE "")
                           \o "\n"
                  ELSE IF Len(df.cols) > 1
                       THEN "'" \o join(".", cells_but(df, r, "VALUE")) \o "' "
                                \o py_str(r[ColIndex(df.cols, "VALUE")]) \o "\n"
                       ELSE py_str(r[ColIndex(df.cols, "VALUE")]) \o "\n"
                  : r \in Range(df.rows) }

\* C7 (amended): each row is one line; every column other than TEXT (set) or
\* VALUE (parameter) is single-quoted by itself and these are joined by ".",
\* followed by the quoted description or by the value: 'A'.'B' 'desc', 'X' 10,
\* and 10 alone for a parameter row with no key column.
C7_QuotedFields ==
    /\ \A b \in WrittenBlocks :
          LET df == tables[b.table]
              quoted(r, skip) ==
                  LET cells == cells_but(df, r, skip)
                  IN  join(".", [k \in 1..Len(cells) |-> "'" \o cells[k] \o "'"])
          IN  /\ Len(b.lines) = Len(df.rows)
              /\ Range(b.lines) =
                    { IF b.table \in sets(config)
                      THEN (IF \E c \in Range(df.cols) : c # "TEXT"
                            THEN quoted(r, "TEXT") ELSE "''")
                               \o (IF HasCol(df, "TEXT")
                                   THEN " '" \o py_str(r[ColIndex(df.cols, "TEXT")]) \o "'"
                                   ELSE "")
                               \o "\n"
                      ELSE IF Len(df.cols) > 1
                           THEN quoted(r, "VALUE") \o " "
                                    \o py_str(r[ColIndex(df.cols, "VALUE")]) \o "\n"
                           ELSE py_str(r[ColIndex(df.cols, "VALUE")]) \o "\n"
                      : r \in Range(df.rows) }
    /\ convert_set([cols |-> <<"A", "B", "TEXT">>, rows |-> << <<"A", "B", "desc">> >>])
          = << "'A'.'B' 'desc'\n" >>
    /\ convert_parameter([cols |-> <<"K", "VALUE">>, rows |-> << <<"X", "10">> >>])
          = << "'X' 10\n" >>
    /\ convert_parameter([cols |-> <<"VALUE">>, rows |-> << <<"10">> >>]) = << "10\n" >>

\* C7's case: the set row (A,B) with TEXT = desc and a parameter row with a key
\* have been written.
C7_Witness ==
    /\ pc = "dd_done"
    /\ \E b \in WrittenBlocks : b.table = "T1" /\ "'A'.'B' 'desc'\n" \in Range(b.lines)
    /\ \E b \in WrittenBlocks : b.table = "T2" /\ b.lines = << "'X' 10\n" >>

\* C8 (the claim as stated): every table of the store is written exactly once,
\* ALL_TS to ts.dd and every other table to output.dd, in dd_table_order order;
\* no table of the store is left out.
C8_EveryTableOnce ==
    pc = "dd_done" =>
        /\ \A t \in DOMAIN tables :
              /\ Cardinality({k \in 1..Len(files["ts.dd"]) :
                                 files["ts.dd"][k].table = t})
                    = (IF t = "ALL_TS" THEN 1 ELSE 0)
              /\ Cardinality({k \in 1..Len(files["output.dd"]) :
                                 files["output.dd"][k].table = t})
                    = (IF t = "ALL_TS" THEN 0 ELSE 1)
        /\ BlockTables("output.dd")
              = SelectSeq(config.dd_table_order, LAMBDA t : t \in DOMAIN tables)

\* C8 (amended): when write_dd_files completes, ts.dd holds the table ALL_TS (if
\* the store has it) and no other, and output.dd holds, in dd_table_order order,
\* one block for every occurrence in dd_table_order of a name other than ALL_TS
\* that is a table of the store: a table of the store is left out exactly when
\* dd_table_order does not name it (and it is not ALL_TS).
C8_Routing ==
    pc = "dd_done" =>
        /\ BlockTables("ts.dd")
              = (IF "ALL_TS" \in DOMAIN tables THEN <<"ALL_TS">> ELSE <<>>)
        /\ BlockTables("output.dd")
              = SelectSeq(config.dd_table_order,
                          LAMBDA t : t # "ALL_TS" /\ t \in DOMAIN tables)
        /\ \A t \in DOMAIN tables :
              (\E b \in WrittenBlocks : b.table = t)
                  <=> (t = "ALL_TS" \/ t \in Range(config.dd_table_order))
        /\ \A f \in DOMAIN files : \A k \in 1..Len(files[f]) :
              /\ files[f][k].table \in DOMAIN tables
              /\ files[f][k].terminator = Terminator

\* C8's case: a store with ALL_TS, T1 and T2 serialized under a dd_table_order
\* that names ALL_TS and, after T2, T1.
C8_Witness ==
    /\ pc = "dd_done"
    /\ DOMAIN tables = {"ALL_TS", "T1", "T2"}
    /\ config.dd_table_order = <<"ALL_TS", "T1", "T2">>
    /\ BlockTables("ts.dd") = <<"ALL_TS">>
    /\ BlockTables("output.dd") = <<"T1", "T2">>

\* C9: the lines of every table body are in ascending lexicographic order of
\* their text, and what is written for a table is the same for every order of
\* its rows (so also when the same store is serialized again).
C9_RowOrderIndependent ==
    \A b \in WrittenBlocks :
        LET df == tables[b.table]
            idx == 1..Len(df.rows)
        IN  /\ \A i, j \in 1..Len(b.lines) : i < j => ~str_lt(b.lines[j], b.lines[i])
            /\ \A p \in Permutations(idx) :
                  sorted(ConvertedLines(b, [df EXCEPT !.rows = [k \in idx |-> df.rows[p[k]]]]))
                      = b.lines

\* C9's case: a table whose rows are not in the order of their lines has been
\* written.
C9_Witness ==
    /\ pc = "dd_done"
    /\ \E b \in WrittenBlocks :
          /\ Len(b.lines) > 1
          /\ ConvertedLines(b, tables[b.table]) # b.lines

-----------------------------------------------------------------------------
(* compare *)

RECURSIVE split_dot_first(_)
\* col.split(".")[0]: the text before the first "."
split_dot_first(col) ==
    IF Len(col) = 0 \/ CharAt(col, 1) = "." THEN ""
    ELSE CharAt(col, 1) \o split_dot_first(SubSeq(col, 2, Len(col)))

\* transformed_gt_cols = [col.split(".")[0] for col in gt_table.columns]
transformed_gt_cols(gt_table) ==
    [j \in 1..Len(gt_table.cols) |-> split_dot_first(gt_table.cols[j])]

\* set(tuple(row) for row in df.to_numpy().tolist())
row_set(df) == Range(df.rows)

\* the rows counted as correct, taken as the ground-truth rows not in the output
correct_rows_missing(gt_rows, data_rows) == Cardinality(gt_rows \ data_rows)

\* len(gt_rows.intersection(data_rows))
correct_rows(gt_rows, data_rows) == Cardinality(gt_rows \cap data_rows)

RECURSIVE SumRows(_, _)
\* sum(len(store[x]) for x in names)
SumRows(store, names) ==
    IF names = {} THEN 0
    ELSE LET x == CHOOSE y \in names : TRUE
         IN  Len(store[x].rows) + SumRows(store, names \ {x})

\* The stores compared: T1 with the columns K, VALUE or with a column name
\* twice (as produced) or with the suffix the CSV reader gives the second one
\* (as read back); T2 one fixed table.
CmpTables ==
    { [cols |-> cols, rows |-> rs] :
        cols \in { <<"K", "VALUE">>, <<"K", "K">>, <<"K", "K.1">> },
        rs \in SeqsUpTo({<<"X", "1">>, <<"Y", "2">>}, MaxCmpRows) }

CmpT2 == [cols |-> <<"K", "VALUE">>, rows |-> << <<"X", "1">> >>]

CmpStores ==
    { [t \in names |-> IF t = "T1" THEN t1 ELSE CmpT2] :
        names \in {ns \in SUBSET {"T1", "T2"} : "T1" \in ns}, t1 \in CmpTables }
    \cup { EmptyStore, [t \in {"T2"} |-> CmpT2] }

\* The start of compare: the missing and the additional tables, and the order
\* in which the ground-truth tables are compared (by falling row count; tables
\* of the same size in the order of the dict).
compare_tables ==
    /\ pc = "cmp_start"
    /\ LET missing == DOMAIN ground_truth \ DOMAIN data
           additional_tables == DOMAIN data \ DOMAIN ground_truth
       IN  /\ warnings' =
                 (IF Cardinality(missing) > 0
                  THEN << [kind |-> "missing_tables", tables |-> missing] >> ELSE <<>>)
                 \o (IF Cardinality(additional_tables) > 0
                     THEN << [kind |-> "additional_tables", tables |-> additional_tables] >>
                     ELSE <<>>)
           /\ totals' = [gt_rows |-> 0, correct_rows |-> 0,
                         additional_rows |-> SumRows(data, additional_tables)]
    /\ \E order \in SeqsUpTo(DOMAIN ground_truth, Cardinality(DOMAIN ground_truth)) :
          /\ Len(order) = Cardinality(DOMAIN ground_truth)
          /\ Range(order) = DOMAIN ground_truth
          /\ \A i, j \in 1..Len(order) :
                i < j => Len(ground_truth[order[i]].rows) >= Len(ground_truth[order[j]].rows)
          /\ gt_todo' = order
    /\ pc' = "cmp_loop"
    /\ UNCHANGED <<canonVars, ddVars, runVars, readVars, data, ground_truth, side_files, summary>>

\* One iteration of  for table_name, gt_table in sorted(ground_truth.items(), ...)
compare_table ==
    /\ pc = "cmp_loop"
    /\ gt_todo # <<>>
    /\ LET table_name == Head(gt_todo)
           gt_table == ground_truth[table_name]
           gt_len == Len(gt_table.rows)
       IN  IF table_name \notin DOMAIN data
           THEN /\ totals' = [totals EXCEPT !.gt_rows = @ + gt_len]
                /\ UNCHANGED <<warnings, side_files>>
           ELSE LET data_table == data[table_name]
                    data_cols == data_table.cols
                IN  IF transformed_gt_cols(gt_table) # data_cols
                    THEN /\ totals' = [totals EXCEPT !.gt_rows = @ + gt_len]
                         /\ warnings' = Append(warnings,
                                [kind |-> "header", table |-> table_name,
                                 was |-> data_cols,
                                 should_be |-> transformed_gt_cols(gt_table)])
                         /\ UNCHANGED side_files
                    ELSE LET gt_rows == row_set(gt_table)
                             data_rows == row_set(data_table)
                             additional == data_rows \ gt_rows
                             missing == gt_rows \ data_rows
                         IN  /\ totals' =
                                   [gt_rows |-> totals.gt_rows + gt_len,
                                    correct_rows |-> totals.correct_rows
                                        + correct_rows(gt_rows, data_rows),
                                    additional_rows |-> totals.additional_rows
                                        + Cardinality(additional)]
                             /\ warnings' =
                                   IF Cardinality(additional) # 0 \/ Cardinality(missing) # 0
                                   THEN Append(warnings,
                                            [kind |-> "rows", table |-> table_name,
                                             additional |-> Cardinality(additional),
                                             missing |-> Cardinality(missing)])
                                   ELSE warnings
                             /\ side_files' = side_files
                                   \cup (IF Cardinality(additional) # 0
                                         THEN {table_name \o "_additional.csv"} ELSE {})
                                   \cup (IF Cardinality(missing) # 0
                                         THEN {table_name \o "_missing.csv"} ELSE {})
    /\ gt_todo' = Tail(gt_todo)
    /\ pc' = "cmp_loop"
    /\ UNCHANGED <<canonVars, ddVars, runVars, readVars, data, ground_truth, summary>>

\* The summary line: total_correct_rows / total_gt_rows raises
\* ZeroDivisionError when the ground truth has no row
compare_summary ==
    /\ pc = "cmp_loop"
    /\ gt_todo = <<>>
    /\ IF totals.gt_rows = 0
       THEN /\ pc' = "cmp_raised"
            /\ UNCHANGED summary
       ELSE /\ pc' = "cmp_done"
            /\ summary' = [correct |-> totals.correct_rows, gt |-> totals.gt_rows,
                           additional |-> totals.additional_rows, printed |-> TRUE]
    /\ UNCHANGED <<canonVars, ddVars, runVars, readVars, data, ground_truth, gt_todo, totals,
                   side_files, warnings>>

InitCompare ==
    /\ CanonIdle
    /\ DDIdle
    /\ RunIdle
    /\ ReadIdle
    /\ data \in CmpStores
    /\ ground_truth \in CmpStores
    /\ gt_todo = <<>>
    /\ totals = [gt_rows |-> 0, correct_rows |-> 0, additional_rows |-> 0]
    /\ side_files = {}
    /\ summary = NoSummary
    /\ warnings = <<>>
    /\ pc = "cmp_start"

NextCompare ==
    \/ compare_tables
    \/ compare_table
    \/ compare_summary

SpecCompare == InitCompare /\ [][NextCompare]_vars

-----------------------------------------------------------------------------
(* Claims about compare *)

CompareEnded == pc \in {"cmp_done", "cmp_raised"}

\* what the claim says compare reports for a ground truth equal to the output
ReportsAllCorrect ==
    /\ pc = "cmp_done"
    /\ warnings = <<>>
    /\ side_files = {}
    /\ summary.printed
    /\ summary.additional = 0
    /\ summary.correct = summary.gt
    /\ summary.gt = SumRows(ground_truth, DOMAIN ground_truth)

\* C6 (the claim as stated): for every store, compare with a ground truth equal
\* to it raises nothing and reports no missing table, no additional table, no
\* header mismatch, no missing row, no additional row, and as many correct rows
\* as the ground truth has rows.
C6_EqualStoresAllCorrect ==
    (CompareEnded /\ data = ground_truth) => ReportsAllCorrect

\* What does hold of compare on equal stores: the same report, for the stores
\* that have at least one row, no table with a repeated row and no column name
\* containing a dot.  Without a row the summary line divides by zero.
EqualStoresAllCorrectGivenRows ==
    (/\ CompareEnded
     /\ data = ground_truth
     /\ SumRows(ground_truth, DOMAIN ground_truth) > 0
     /\ \A t \in DOMAIN ground_truth :
           /\ Cardinality(Range(ground_truth[t].rows)) = Len(ground_truth[t].rows)
           /\ \A c \in Range(ground_truth[t].cols) :
                 \A i \in 1..Len(c) : CharAt(c, i) # ".")
    => ReportsAllCorrect

\* compare has ended on two equal stores of two tables, one of them with two
\* rows and a column name used twice.
EqualStoresCompared ==
    /\ pc = "cmp_done"
    /\ data = ground_truth
    /\ DOMAIN data = {"T1", "T2"}
    /\ data["T1"].cols = <<"K", "K">>
    /\ Len(data["T1"].rows) = 2
    /\ summary.gt = 3

-----------------------------------------------------------------------------
(* convert_xl_to_times (the transform loop) and main *)

\* transform_list, by the name of the function each entry calls
transform_list ==
    << "generate_dummy_processes", "normalize_tags_columns_attrs", "remove_fill_tables",
       "remove_comment_rows", "remove_comment_cols", "remove_tables_with_formulas",
       "process_transform_insert", "process_processes", "process_topology",
       "process_flexible_import_tables", "process_user_constraint_tables",
       "process_commodity_emissions", "process_commodities",
       "process_transform_availability", "process_time_slices",
       "fill_in_missing_values", "expand_rows_parallel", "remove_invalid_values",
       "process_time_periods", "process_units", "generate_all_regions",
       "capitalise_attributes", "apply_fixups", "extract_commodity_groups",
       "fill_in_missing_pcgs", "generate_top_ire", "include_tables_source",
       "merge_tables", "apply_more_fixups", "process_years", "process_uc_wildcards",
       "process_wildcards", "convert_aliases", "rename_cgs", "convert_to_string",
       "dump_tables", "produce_times_tables" >>

\* The values a stage takes and returns, by identity: a list of raw tables or
\* a Table Store.
Stores == 1..MaxStore

\* What the stage called name may return for the argument arg: dump_tables
\* returns its argument; the transforms are functions of the module
\* transforms, which may return anything.
stage_returns(name, arg) ==
    IF name = "dump_tables" THEN {arg} ELSE Stores

\* input = output, with the assignment left out
next_input_stale(arg, ret) == arg

\* input = output: what the next stage is passed, after a stage was passed arg
\* and returned ret
next_input(arg, ret) == ret

\* One iteration of  for transform in transform_list, the stage returning
run_transform ==
    /\ pc = "transforms"
    /\ stage < Len(transform_list)
    /\ \E ret \in stage_returns(transform_list[stage + 1], stage_input) :
          /\ output' = ret
          /\ stage_input' = next_input(stage_input, ret)
    /\ calls' = Append(calls, stage + 1)
    /\ last_arg' = stage_input
    /\ prev_ret' = output
    /\ stage' = stage + 1
    /\ UNCHANGED <<canonVars, ddVars, cmpVars, readVars, args, raw_tables, raised_by, returned, ran,
                   warnings, pc>>

\* One iteration of the loop, the stage raising: the exception leaves
\* convert_xl_to_times and main, which catch nothing
run_transform_raises ==
    /\ pc = "transforms"
    /\ stage < Len(transform_list)
    /\ calls' = Append(calls, stage + 1)
    /\ last_arg' = stage_input
    /\ prev_ret' = output
    /\ raised_by' = stage + 1
    /\ pc' = "run_raised"
    /\ UNCHANGED <<canonVars, ddVars, cmpVars, readVars, args, raw_tables, stage, stage_input, output,
                   returned, ran, warnings>>

\* return output
run_return ==
    /\ pc = "transforms"
    /\ stage = Len(transform_list)
    /\ returned' = output
    /\ pc' = "run_returned"
    /\ UNCHANGED <<canonVars, ddVars, cmpVars, readVars, args, raw_tables, stage, stage_input, output,
                   calls, last_arg, prev_ret, raised_by, ran, warnings>>

\* main: write_dd_files(tables, ...) if args.dd, else write_csv_tables(tables, ...)
main_serialize ==
    /\ pc = "run_returned"
    /\ ran' = ran \cup {IF args.dd THEN "write_dd_files" ELSE "write_csv_tables"}
    /\ \E ok \in {TRUE} \cup (IF args.dd THEN {FALSE} ELSE {}) :
          pc' = IF ok THEN "run_serialized" ELSE "run_raised"
    /\ UNCHANGED <<canonVars, ddVars, cmpVars, readVars, args, raw_tables, stage, stage_input, output,
                   calls, last_arg, prev_ret, raised_by, returned, warnings>>

\* main: if args.ground_truth_dir: compare(tables, ground_truth, ...)
main_verify ==
    /\ pc = "run_serialized"
    /\ ran' = IF args.ground_truth_dir THEN ran \cup {"compare"} ELSE ran
    /\ pc' = "run_exit"
    /\ UNCHANGED <<canonVars, ddVars, cmpVars, readVars, args, raw_tables, stage, stage_input, output,
                   calls, last_arg, prev_ret, raised_by, returned, warnings>>

\* The state at line 98: input = raw_tables, output = {}
InitRun ==
    /\ CanonIdle
    /\ DDIdle
    /\ CmpIdle
    /\ ReadIdle
    /\ args \in [dd : BOOLEAN, ground_truth_dir : BOOLEAN]
    /\ raw_tables \in Stores
    /\ stage = 0
    /\ stage_input = raw_tables
    /\ output = EmptyDict
    /\ calls = <<>>
    /\ last_arg = EmptyDict
    /\ prev_ret = EmptyDict
    /\ raised_by = 0
    /\ returned = EmptyDict
    /\ ran = {}
    /\ warnings = <<>>
    /\ pc = "transforms"

NextRun ==
    \/ run_transform
    \/ run_transform_raises
    \/ run_return
    \/ main_serialize
    \/ main_verify

SpecRun == InitRun /\ [][NextRun]_vars

-----------------------------------------------------------------------------
(* Claims about convert_xl_to_times *)

\* C10: in a full run the stages of transform_list are called one at a time,
\* each once and in list order; the first is passed the raw tables and every
\* other one what the stage before it returned, dump_tables returning what it
\* is passed; when a stage raises, no later stage is called, convert_xl_to_times
\* returns no store, and neither the serializer nor the verifier runs.
C10_LinearPass ==
    /\ calls = [k \in 1..Len(calls) |-> k]
    /\ Len(calls) = 1 => last_arg = raw_tables
    /\ Len(calls) > 1 => last_arg = prev_ret
    /\ (/\ Len(calls) > 0
        /\ transform_list[calls[Len(calls)]] = "dump_tables"
        /\ raised_by = 0) => output = last_arg
    /\ raised_by # 0 =>
          /\ pc = "run_raised"
          /\ calls[Len(calls)] = raised_by
          /\ returned = EmptyDict
          /\ ran = {}
    /\ (returned # EmptyDict \/ ran # {}) =>
          /\ Len(calls) = Len(transform_list)
          /\ raised_by = 0
          /\ returned = output

\* C10's case: all stages were called, the store was returned and both the
\* serializer and the verifier ran.
C10_Witness ==
    /\ pc = "run_exit"
    /\ Len(calls) = Len(transform_list)
    /\ last_arg # raw_tables
    /\ output # last_arg
    /\ ran = {"write_dd_files", "compare"}

\* C10's other case: a stage in the middle of the list raised.
C10_WitnessRaised ==
    /\ pc = "run_raised"
    /\ raised_by > 1
    /\ raised_by < Len(transform_list)

-----------------------------------------------------------------------------
(* convert_xl_to_times: reading the raw tables, up to the first stage *)

\* A raw table (datatypes.EmbeddedXlTable), by the fields the reading part
\* uses.  extracted_from keeps the filename the table was extracted with; the
\* code has no such field.
EmbeddedXlTable(filename, sheetname, range) ==
    [filename |-> filename, sheetname |-> sheetname, range |-> range,
     extracted_from |-> filename]

\* The raw tables of the model: two files of one directory and a file of
\* another, two sheets, two ranges.
RawTables ==
    { EmbeddedXlTable(f, sh, r) : f \in {"d/a", "d/b", "e/a"}, sh \in {"S1", "S2"},
                                  r \in {"A1", "B2"} }

\* What extraction (or the pickle file) gives: the tables in any order
RawTableLists == SeqsUpTo(RawTables, MaxTables)

RECURSIVE tuple_lt(_, _)
\* a < b on Python tuples of strings
tuple_lt(a, b) ==
    IF b = <<>> THEN FALSE
    ELSE IF a = <<>> THEN TRUE
    ELSE IF a[1] # b[1] THEN str_lt(a[1], b[1])
    ELSE tuple_lt(Tail(a), Tail(b))

\* key=lambda x: (x.filename, x.sheetname, x.range)
sort_key(x) == <<x.filename, x.sheetname, x.range>>

RECURSIVE insert_by_key(_, _)
\* x put into the list ascending by sort_key, behind the elements not greater
insert_by_key(l, x) ==
    IF l = <<>> THEN <<x>>
    ELSE IF tuple_lt(sort_key(x), sort_key(l[1])) THEN <<x>> \o l
    ELSE <<l[1]>> \o insert_by_key(Tail(l), x)

RECURSIVE list_sort(_)
\* raw_tables.sort(key=...): ascending by sort_key, equal keys in their order
list_sort(l) ==
    IF l = <<>> THEN <<>>
    ELSE insert_by_key(list_sort(SubSeq(l, 1, Len(l) - 1)), l[Len(l)])

RECURSIVE split(_, _)
\* path.split(sep), sep one character
split(path, sep) ==
    IF \A k \in 1..Len(path) : CharAt(path, k) # sep THEN <<path>>
    ELSE LET at == CHOOSE k \in 1..Len(path) :
                      /\ CharAt(path, k) = sep
                      /\ \A j \in 1..(k - 1) : CharAt(path, j) # sep
         IN  <<SubSeq(path, 1, at - 1)>> \o split(SubSeq(path, at + 1, Len(path)), sep)

\* os.path.commonpath(paths) for relative paths, paths not empty: the longest
\* common sequence of leading components
commonpath(paths) ==
    LET comps == [k \in 1..Len(paths) |->
                     SelectSeq(split(paths[k], "/"), LAMBDA c : c # "" /\ c # ".")]
        agree(j) == \A k \in 1..Len(paths) :
                        /\ j <= Len(comps[k])
                        /\ comps[k][j] = comps[1][j]
        len == Cardinality({j \in 1..Len(comps[1]) : \A h \in 1..j : agree(h)})
    IN  join("/", SubSeq(comps[1], 1, len))

\* filename.startswith(prefix)
startswith(str, prefix) ==
    /\ Len(prefix) <= Len(str)
    /\ SubSeq(str, 1, Len(prefix)) = prefix

\* strip_filename_prefix(table, prefix)
strip_filename_prefix(table, prefix) ==
    IF startswith(table.filename, prefix)
    THEN [table EXCEPT !.filename = SubSeq(table.filename, Len(prefix) + 2,
                                           Len(table.filename))]
    ELSE table

\* Lines 24-44: raw_tables is loaded from the pickle file or extended with the
\* result of the extraction of every input file
read_tables ==
    /\ pc = "read"
    /\ raw_tables_list' \in RawTableLists
    /\ pc' = "read_sort"
    /\ UNCHANGED <<canonVars, ddVars, cmpVars, runVars, stop_after_read, raw_tables_txt,
                   first_input, warnings>>

\* if stop_after_read: sort, make the file names relative
read_sort ==
    /\ pc = "read_sort"
    /\ IF stop_after_read
       THEN IF raw_tables_list = <<>>
            THEN \* os.path.commonpath([]) raises ValueError
                 /\ pc' = "read_raised"
                 /\ UNCHANGED raw_tables_list
            ELSE LET srt == list_sort(raw_tables_list)
                     input_dir == commonpath([k \in 1..Len(srt) |-> srt[k].filename])
                 IN  /\ raw_tables_list' =
                            [k \in 1..Len(srt) |-> strip_filename_prefix(srt[k], input_dir)]
                     /\ pc' = "read_dump"
       ELSE /\ pc' = "read_dump"
            /\ UNCHANGED raw_tables_list
    /\ UNCHANGED <<canonVars, ddVars, cmpVars, runVars, stop_after_read, raw_tables_txt,
                   first_input, warnings>>

\* dump_tables(raw_tables, "raw_tables.txt")
read_dump ==
    /\ pc = "read_dump"
    /\ raw_tables_txt' = [done |-> TRUE, tables |-> raw_tables_list]
    /\ pc' = "read_dumped"
    /\ UNCHANGED <<canonVars, ddVars, cmpVars, runVars, stop_after_read, raw_tables_list,
                   first_input, warnings>>

\* if stop_after_read: return {}
read_return ==
    /\ pc = "read_dumped"
    /\ stop_after_read
    /\ pc' = "read_returned"
    /\ UNCHANGED <<canonVars, ddVars, cmpVars, runVars, readVars, warnings>>

\* input = raw_tables, and the first stage of transform_list is called with it
read_first_stage ==
    /\ pc = "read_dumped"
    /\ ~stop_after_read
    /\ first_input' = [done |-> TRUE, tables |-> raw_tables_list]
    /\ pc' = "read_transforms"
    /\ UNCHANGED <<canonVars, ddVars, cmpVars, runVars, stop_after_read, raw_tables_list,
                   raw_tables_txt, warnings>>

InitRead ==
    /\ CanonIdle
    /\ DDIdle
    /\ CmpIdle
    /\ RunIdle
    /\ stop_after_read \in BOOLEAN
    /\ raw_tables_list = <<>>
    /\ raw_tables_txt = NotYet
    /\ first_input = NotYet
    /\ warnings = <<>>
    /\ pc = "read"

NextRead ==
    \/ read_tables
    \/ read_sort
    \/ read_dump
    \/ read_return
    \/ read_first_stage

SpecRead == InitRead /\ [][NextRead]_vars

-----------------------------------------------------------------------------
(* Claims about the reading part *)

\* the list is ascending by (file path as extracted, sheet name, range)
SortedByPathSheetRange(l) ==
    \A j, k \in 1..Len(l) :
        j < k => ~tuple_lt(<<l[k].extracted_from, l[k].sheetname, l[k].range>>,
                           <<l[j].extracted_from, l[j].sheetname, l[j].range>>)

\* C11: in every run, full or read-only, the list of raw tables is sorted by
\* (file path, sheet name, range) when it is dumped to raw_tables.txt and when
\* the first stage of transform_list receives it.
C11_SortedBeforeUse ==
    /\ raw_tables_txt.done => SortedByPathSheetRange(raw_tables_txt.tables)
    /\ first_input.done => SortedByPathSheetRange(first_input.tables)

\* What does hold: in read-only mode the list dumped to raw_tables.txt is sorted;
\* a full run dumps and passes on the list in the order it was read.
ReadOnlySortedBeforeDump ==
    /\ (stop_after_read /\ raw_tables_txt.done) =>
          SortedByPathSheetRange(raw_tables_txt.tables)
    /\ ~stop_after_read =>
          /\ raw_tables_txt.done => raw_tables_txt.tables = raw_tables_list
          /\ first_input.done => first_input.tables = raw_tables_txt.tables

\* a read-only run has dumped two tables that were read in descending order
ReadOnlyDumpedSorted ==
    /\ pc = "read_returned"
    /\ Len(raw_tables_txt.tables) = 2
    /\ raw_tables_txt.tables[1].extracted_from = "d/a"
    /\ raw_tables_txt.tables[2].extracted_from = "e/a"
    /\ raw_tables_txt.tables[2].filename = "/a"

-----------------------------------------------------------------------------
(* Claims about the unused input tables (produce_times_tables) *)

\* the source tables named by the entries gone through
ProcessedNames == {processed[k].xl_name : k \in 1..Len(processed)}

\* the source tables an entry gone through stored an output table from
FedNames == {processed[k].xl_name : k \in {j \in 1..Len(processed) :
                                              processed[j].outcome = "stored"}}

\* the unused-tables warnings printed
UnusedWarnings == {k \in 1..Len(warnings) : warnings[k].kind = "unused"}

\* C12: a source table is recorded as used only by an entry gone through that
\* names it; once all entries are gone through, every input table not recorded
\* as used is reported: an input table no entry names is in exactly one
\* unused-tables warning and gave no output table, the result is returned all
\* the same, and no input table that fed an output table is reported.
C12_UnusedTablesReported ==
    /\ used_tables = ProcessedNames \cap DOMAIN input
    /\ FedNames \subseteq used_tables
    /\ \A k \in UnusedWarnings : warnings[k].tables \cap FedNames = {}
    /\ pc # "done" => UnusedWarnings = {}
    /\ pc = "done" =>
          /\ Cardinality(UnusedWarnings) <= 1
          /\ \A t \in DOMAIN input \ ProcessedNames :
                /\ Cardinality({k \in UnusedWarnings : t \in warnings[k].tables}) = 1
                /\ t \notin FedNames
          /\ \A k \in UnusedWarnings :
                /\ k = Len(warnings)
                /\ warnings[k].tables = DOMAIN input \ ProcessedNames
          /\ \A k \in 1..Len(processed) :
                processed[k].outcome = "stored" =>
                    processed[k].times_name \in DOMAIN result

\* C12's case: the run is over, the table techs fed an output table and the
\* table aux, which no entry named, is the one table reported as unused.
C12_Witness ==
    /\ pc = "done"
    /\ "techs" \in FedNames
    /\ "aux" \notin ProcessedNames
    /\ DOMAIN result # {}
    /\ Cardinality(UnusedWarnings) = 1
    /\ \A k \in UnusedWarnings : warnings[k].tables = {"aux"}

====
